---- MODULE Spec2Model ----
(***************************************************************************)
(* Model of the sidecar-executor: one Mesos executor process that launches *)
(* one Docker container per task, watches it (Docker listing + Sidecar     *)
(* state) and reports task states through the Mesos executor driver.       *)
(*                                                                         *)
(* Processes of the model:                                                 *)
(*   launch  - the LaunchTask driver callback                              *)
(*   watch   - the goroutine running watchContainer (the timed looper)     *)
(*   monitor - the goroutine blocked in looper.Wait()                      *)
(*   kill    - the KillTask driver callback                                *)
(* Driver callbacks are delivered one at a time by the driver's event      *)
(* loop; goroutines interleave freely with them.                           *)
(***************************************************************************)
EXTENDS Integers, Sequences, FiniteSets, TLC

\* ---------------------------------------------------------------- constants

TaskRunning == 0
TaskFinished == 1
TaskFailed == 2
TaskKilled == 3

SidecarRetryCount == 5

IdPrefixLen == 12

\* The status values of the Sidecar service package (service.ALIVE, ...),
\* named rather than numbered: only their being distinct matters here.
ALIVE == "ALIVE"
TOMBSTONE == "TOMBSTONE"
UNHEALTHY == "UNHEALTHY"
UNKNOWN == "UNKNOWN"

\* ------------------------------------------------------------------- bounds

\* Exit codes InspectContainer may report: 0..MaxExitCode
MaxExitCode == 2

\* Lines each container output stream delivers at most
MaxLines == 2

\* --------------------------------------------------------------- data model

Terminal == {TaskFinished, TaskFailed, TaskKilled}

\* Container ids are character strings; a character is a small number here.
ContainerID == <<1, 2, 3, 4, 5, 6, 7, 8, 9, 10, 11, 12, 13, 14>>
OtherContainerID == <<2, 2, 3, 4, 5, 6, 7, 8, 9, 10, 11, 12, 13, 14>>

\* container.ID[:12]
ShortID(id) == SubSeq(id, 1, IdPrefixLen)

\* os.Getenv("TASK_HOST")
TaskHost == "host-a"
OtherHost == "host-b"

Statuses == {ALIVE, TOMBSTONE, UNHEALTHY, UNKNOWN}

\* The Services map published for one host: short id -> status.
AllServiceMaps == UNION {[D -> Statuses] : D \in SUBSET {ShortID(ContainerID), ShortID(OtherContainerID)}}

\* For the task's host every status of the task's container is drawn; the
\* entries that are not about this container on this host are unhealthy ones,
\* the case in which they could wrongly fail the task.
ServiceMaps(h) ==
    IF h = TaskHost
    THEN {m \in AllServiceMaps :
            \A id \in DOMAIN m : id # ShortID(ContainerID) => m[id] = UNHEALTHY}
    ELSE {m \in AllServiceMaps : DOMAIN m = {ShortID(ContainerID)} /\ m[ShortID(ContainerID)] = UNHEALTHY}

\* The Servers map of a decoded state document: host -> Services map.
ServerMaps ==
    UNION {{s \in [D -> AllServiceMaps] : \A h \in D : s[h] \in ServiceMaps(h)} :
             D \in SUBSET {TaskHost, OtherHost}}

\* What an HTTP body can be: bytes that are no JSON document of the expected
\* types, or a JSON document whose "Servers" member decodes to a map.
Bodies == {[json |-> FALSE, servers |-> [h \in {} |-> 0]]} \cup
          {[json |-> TRUE, servers |-> s] : s \in ServerMaps}

NoData == [json |-> FALSE, servers |-> [h \in {} |-> 0], none |-> TRUE]

\* Results of one fetch(): ok, connection error (nil response), an error that
\* comes with a response (a refused redirect), or an error reading the body.
FetchOutcomes == {"ok", "getErrNilResp", "getErrResp", "readErr"}

\* What ListContainers may return besides an error.
Listings == SUBSET {ContainerID, OtherContainerID}

ForcePullValues == {"true", "false", "nil"}

VARIABLES
    proc,          \* "running", "exited", or the place of the panic that ended it
    stoppedBy,     \* the callers that have called driver.Stop()
    sent,          \* status updates accepted by driver.SendStatusUpdate, in order
    slept,         \* the callers that finished their one-second grace sleep
    refused,       \* history: the callers whose SendStatusUpdate returned an error
    pc,            \* position of each of launch, watch, monitor, kill
    calls,         \* LaunchTask's CreateContainer / StartContainer calls and results
    listing,       \* result of the current iteration's ListContainers
    attempt,       \* i of the retry loop in sidecarStatus
    data,          \* data of the retry loop
    fetchErr,      \* err of the retry loop (TRUE: non-nil)
    anyOk,         \* history: a fetch of the current poll succeeded
    loopErr,       \* the error of the loop function, "nil" when none
    wslept,        \* history: the sleep the watcher goroutine finished since its
                   \* last runtime or registry call ("none", "backoff", "tick")
    stopErr,       \* KillTask: StopContainer returned an error
    inspect,       \* KillTask: InspectContainer result
    killStatus,    \* KillTask: the local variable status
    rpc,           \* position of relayLogs ("idle": never called)
    quit,          \* quitChan is closed
    pump,          \* position of each handleOneStream goroutine
    name,          \* the stream name each handleOneStream was given
    ended,         \* why each handleOneStream returned ("none": it has not)
    lines,         \* lines each scanner has delivered so far
    sink           \* the records handed to the syslog logger, in order

mainVars == <<proc, stoppedBy, sent, slept, refused, pc, calls, listing, attempt,
              data, fetchErr, anyOk, loopErr, wslept, stopErr, inspect, killStatus>>

relayVars == <<rpc, quit, pump, name, ended, lines, sink>>

vars == <<mainVars, relayVars>>

dockerVars == <<calls>>
pollVars == <<attempt, data, fetchErr, anyOk>>
watchVars == <<listing, attempt, data, fetchErr, anyOk, loopErr, wslept>>
killVars == <<stopErr, inspect, killStatus>>

Procs == {"launch", "watch", "monitor", "kill"}

NoInspect == [err |-> FALSE, exitCode |-> -1, called |-> FALSE]

\* The two goroutines relayLogs starts, and the stream names a
\* handleOneStream can be given ("other": neither stdout nor stderr).
Pumps == {1, 2}
Tags == {"stdout", "stderr", "other"}

Sibling(p) == CHOOSE q \in Pumps : q # p

MainInit ==
    /\ proc = "running"
    /\ stoppedBy = {}
    /\ sent = <<>>
    /\ slept = {}
    /\ refused = {}
    /\ pc = [p \in Procs |-> "idle"]
    /\ calls = <<>>
    /\ listing = [err |-> FALSE, ids |-> {}]
    /\ attempt = 0
    /\ data = NoData
    /\ fetchErr = FALSE
    /\ anyOk = FALSE
    /\ loopErr = "nil"
    /\ wslept = "none"
    /\ stopErr = FALSE
    /\ inspect = NoInspect
    /\ killStatus = TaskKilled

\* No log relay: relayLogs has not been called.
RelayIdle ==
    /\ rpc = "idle"
    /\ quit = FALSE
    /\ pump = [p \in Pumps |-> "idle"]
    /\ name = [p \in Pumps |-> "none"]
    /\ ended = [p \in Pumps |-> "none"]
    /\ lines = [p \in Pumps |-> 0]
    /\ sink = <<>>

Init == MainInit /\ RelayIdle

\* ------------------------------------------------------------------ helpers

Running == proc = "running"

\* The driver's status is no longer DRIVER_RUNNING once Stop() was called.
driverStopped == stoppedBy # {}

Goto(p, label) == pc' = [pc EXCEPT ![p] = label]

\* driver.SendStatusUpdate: refused by a driver that is no longer running,
\* and otherwise succeeds or fails as the transport decides (ok).
SendStatusUpdate(ok) == ok /\ ~driverStopped

\* Mutant: sendStatus logs a failed hand-over and returns to its caller.
sendStatusLoggingError(status, p, ok, next) ==
    /\ sent' = IF SendStatusUpdate(ok)
               THEN Append(sent, [status |-> status, by |-> p]) ELSE sent
    /\ refused' = IF SendStatusUpdate(ok) THEN refused ELSE refused \cup {p}
    /\ proc' = proc
    /\ Goto(p, next)

\* sendStatus: one update handed to the driver; a failed hand-over panics.
\* The caller p continues at next only when the update was accepted.
sendStatus(status, p, ok, next) ==
    IF SendStatusUpdate(ok)
    THEN /\ sent' = Append(sent, [status |-> status, by |-> p])
         /\ proc' = proc
         /\ refused' = refused
         /\ Goto(p, next)
    ELSE /\ sent' = sent
         /\ proc' = "panicSend"
         /\ refused' = refused \cup {p}
         /\ pc' = pc

\* ------------------------------------------------------------- LaunchTask

\* Mutant: LaunchTask goes on to the container without sending TaskRunning.
LaunchWithoutRunning ==
    /\ Running /\ ~driverStopped
    /\ pc["launch"] = "idle" /\ pc["kill"] = "idle"
    /\ Goto("launch", "pull")
    /\ UNCHANGED <<refused, proc, stoppedBy, sent, slept, dockerVars, watchVars, killVars, relayVars>>

\* The driver delivers LaunchTask; the callback stores the task info and
\* sends TaskRunning.
LaunchSendRunning ==
    /\ Running /\ ~driverStopped
    /\ pc["launch"] = "idle" /\ pc["kill"] = "idle"
    /\ \E ok \in BOOLEAN : sendStatus(TaskRunning, "launch", ok, "pull")
    /\ UNCHANGED <<stoppedBy, slept, dockerVars, watchVars, killVars, relayVars>>

\* ForcePullImage is an optional field of the task's DockerInfo: the
\* dereference of an unset one is a nil pointer dereference.
PullPanics(forcePull) == forcePull = "nil"

\* if *taskInfo.Container.Docker.ForcePullImage { container.PullImage(...) }
LaunchPull ==
    /\ Running
    /\ pc["launch"] = "pull"
    /\ \E forcePull \in ForcePullValues :
         IF PullPanics(forcePull)
         THEN proc' = "panicPull" /\ pc' = pc
         ELSE proc' = proc /\ Goto("launch", "create")
    /\ UNCHANGED <<refused, stoppedBy, sent, slept, dockerVars, watchVars, killVars, relayVars>>

\* Mutant: the error of CreateContainer is ignored.
AfterCreateIgnoringError(ok) == "start"

\* Where LaunchTask goes after CreateContainer / StartContainer returned.
AfterCreate(ok) == IF ok THEN "start" ELSE "failSend"
AfterStart(ok) == IF ok THEN "spawn" ELSE "failSend"

LaunchCreate ==
    /\ Running
    /\ pc["launch"] = "create"
    /\ \E ok \in BOOLEAN :
         /\ calls' = Append(calls, [op |-> "CreateContainer", ok |-> ok])
         /\ Goto("launch", AfterCreate(ok))
    /\ UNCHANGED <<refused, proc, stoppedBy, sent, slept, watchVars, killVars, relayVars>>

LaunchStart ==
    /\ Running
    /\ pc["launch"] = "start"
    /\ \E ok \in BOOLEAN :
         /\ calls' = Append(calls, [op |-> "StartContainer", ok |-> ok])
         /\ Goto("launch", AfterStart(ok))
    /\ UNCHANGED <<refused, proc, stoppedBy, sent, slept, watchVars, killVars, relayVars>>

\* go exec.watchContainer(container, looper); go func() { looper.Wait() ... }()
\* and the callback returns.
LaunchSpawn ==
    /\ Running
    /\ pc["launch"] = "spawn"
    /\ pc' = [pc EXCEPT !["launch"] = "done", !["watch"] = "backoff", !["monitor"] = "wait"]
    /\ UNCHANGED <<refused, proc, stoppedBy, sent, slept, dockerVars, watchVars, killVars, relayVars>>

\* ---------------------------------------------------- failTask / finishTask

EndCallers == {"launch", "monitor"}

\* The status failTask and finishTask send.
EndStatus(label) == IF label = "failSend" THEN TaskFailed ELSE TaskFinished

\* exec.sendStatus(TaskFailed | TaskFinished, taskInfo.GetTaskId())
EndTaskSend(p) ==
    /\ Running
    /\ pc[p] \in {"failSend", "finishSend"}
    /\ \E ok \in BOOLEAN : sendStatus(EndStatus(pc[p]), p, ok, "endSleep")
    /\ UNCHANGED <<stoppedBy, slept, dockerVars, watchVars, killVars, relayVars>>

\* time.Sleep(1 * time.Second)
EndTaskSleep(p) ==
    /\ Running
    /\ pc[p] = "endSleep"
    /\ slept' = slept \cup {p}
    /\ Goto(p, "endStop")
    /\ UNCHANGED <<refused, proc, stoppedBy, sent, dockerVars, watchVars, killVars, relayVars>>

\* exec.driver.Stop()
EndTaskStop(p) ==
    /\ Running
    /\ pc[p] = "endStop"
    /\ stoppedBy' = stoppedBy \cup {p}
    /\ Goto(p, "done")
    /\ UNCHANGED <<refused, proc, sent, slept, dockerVars, watchVars, killVars, relayVars>>

\* --------------------------------------------------------- watchContainer

\* Mutant: watchContainer starts its looper without the initial sleep.
WatchWithoutBackoff ==
    /\ Running
    /\ pc["watch"] = "backoff"
    /\ Goto("watch", "list")
    /\ UNCHANGED <<refused, proc, stoppedBy, sent, slept, dockerVars, watchVars, killVars, relayVars>>

\* time.Sleep(SidecarBackoff), then the looper runs its first iteration.
WatchBackoff ==
    /\ Running
    /\ pc["watch"] = "backoff"
    /\ wslept' = "backoff"
    /\ Goto("watch", "list")
    /\ UNCHANGED <<refused, proc, stoppedBy, sent, slept, dockerVars, listing, pollVars, loopErr, killVars, relayVars>>

\* Mutant: any listed container counts as the task's container.
AnyContainerListed(ids) == ids # {}

\* for _, entry := range containers { if entry.ID == container.ID { ok = true } }
ContainerListed(ids) == \E entry \in ids : entry = ContainerID

\* Mutant: a failed ListContainers is passed over and the registry is asked.
ListingErrorFailingOpen(l) ==
    IF l.err THEN "nil"
    ELSE IF ~ContainerListed(l.ids) THEN "notRunning"
    ELSE "nil"

\* The first half of the loop function: nil when the registry is to be asked.
ListingError(l) ==
    IF l.err THEN "listErr"
    ELSE IF ~ContainerListed(l.ids) THEN "notRunning"
    ELSE "nil"

\* The looper after one run of the loop function: an error is handed to
\* Done(err) and ends the loop; the count is FOREVER and Quit() is never
\* called, so without an error the next tick follows.
LooperAfter(err) == IF err # "nil" THEN "done" ELSE "tick"

WatchList ==
    /\ Running
    /\ pc["watch"] = "list"
    /\ \E l \in {[err |-> TRUE, ids |-> {}]} \cup {[err |-> FALSE, ids |-> i] : i \in Listings} :
         /\ listing' = l
         /\ loopErr' = ListingError(l)
         /\ Goto("watch", IF ListingError(l) = "nil" THEN "fetch" ELSE LooperAfter(ListingError(l)))
    /\ attempt' = 0
    /\ data' = NoData
    /\ fetchErr' = FALSE
    /\ anyOk' = FALSE
    /\ wslept' = "none"
    /\ UNCHANGED <<refused, proc, stoppedBy, sent, slept, dockerVars, killVars, relayVars>>

\* for i := 0; i < SidecarRetryCount; i++ { data, err = fetch(); if err != nil { continue } }
RetryLoopRuns(i, err) == i < SidecarRetryCount

\* fetch(): resp, err := Get(url); defer resp.Body.Close(); ... With a nil
\* response the deferred call's receiver is a nil pointer dereference.
FetchPanics(outcome) == outcome = "getErrNilResp"

WatchFetch ==
    /\ Running
    /\ pc["watch"] = "fetch"
    /\ RetryLoopRuns(attempt, fetchErr)
    /\ \E outcome \in FetchOutcomes, body \in Bodies :
         IF FetchPanics(outcome)
         THEN /\ proc' = "panicFetch"
              /\ UNCHANGED <<pollVars, wslept>>
         ELSE /\ proc' = proc
              /\ attempt' = attempt + 1
              /\ fetchErr' = (outcome # "ok")
              /\ data' = IF outcome = "ok" THEN body ELSE NoData
              /\ anyOk' = (anyOk \/ outcome = "ok")
              /\ wslept' = "none"
    /\ UNCHANGED <<refused, stoppedBy, sent, slept, pc, dockerVars, listing, loopErr, killVars, relayVars>>

\* json.Unmarshal(data, &services)
Unmarshal(body) ==
    IF body.json THEN [err |-> FALSE, Servers |-> body.servers]
    ELSE [err |-> TRUE, Servers |-> [h \in {} |-> 0]]

\* Mutant: a tombstone is not taken as a failure.
FailingUnhealthyOnly(status) == status = UNHEALTHY

\* svc.Status == service.UNHEALTHY || svc.Status == service.TOMBSTONE
Failing(status) == status = UNHEALTHY \/ status = TOMBSTONE

\* Mutant: the container's entry is looked up under every host of the
\* state document, not under TASK_HOST alone.
sidecarStatusAnyHost(d, err) ==
    IF err THEN "nil"
    ELSE IF Unmarshal(d).err THEN "nil"
    ELSE IF \E h \in DOMAIN Unmarshal(d).Servers :
              /\ ShortID(ContainerID) \in DOMAIN Unmarshal(d).Servers[h]
              /\ Failing(Unmarshal(d).Servers[h][ShortID(ContainerID)])
         THEN "unhealthy"
    ELSE "nil"

\* sidecarStatus after the retry loop: the error it returns, "nil" for none.
sidecarStatus(d, err) ==
    IF err THEN "nil"
    ELSE IF Unmarshal(d).err THEN "nil"
    ELSE IF TaskHost \notin DOMAIN Unmarshal(d).Servers THEN "nil"
    ELSE IF ShortID(ContainerID) \notin DOMAIN Unmarshal(d).Servers[TaskHost] THEN "nil"
    ELSE IF Failing(Unmarshal(d).Servers[TaskHost][ShortID(ContainerID)]) THEN "unhealthy"
    ELSE "nil"

\* The retry loop is over: the rest of sidecarStatus, and the loop function
\* returns its result to the looper.
WatchEval ==
    /\ Running
    /\ pc["watch"] = "fetch"
    /\ ~RetryLoopRuns(attempt, fetchErr)
    /\ loopErr' = sidecarStatus(data, fetchErr)
    /\ Goto("watch", LooperAfter(sidecarStatus(data, fetchErr)))
    /\ UNCHANGED <<refused, proc, stoppedBy, sent, slept, dockerVars, listing, pollVars, wslept, killVars, relayVars>>

\* The looper's next tick (3 seconds).
WatchTick ==
    /\ Running
    /\ pc["watch"] = "tick"
    /\ wslept' = "tick"
    /\ Goto("watch", "list")
    /\ UNCHANGED <<refused, proc, stoppedBy, sent, slept, dockerVars, listing, pollVars, loopErr, killVars, relayVars>>

\* What the monitoring goroutine does with the result of looper.Wait().
AfterWait(err) == IF err # "nil" THEN "failSend" ELSE "finishSend"

\* looper.Done(err) meets looper.Wait() on the unbuffered DoneChan.
MonitorWait ==
    /\ Running
    /\ pc["watch"] = "done" /\ pc["monitor"] = "wait"
    /\ pc' = [pc EXCEPT !["watch"] = "exited", !["monitor"] = AfterWait(loopErr)]
    /\ UNCHANGED <<refused, proc, stoppedBy, sent, slept, dockerVars, watchVars, killVars, relayVars>>

\* ---------------------------------------------------------------- KillTask

\* Mutant: KillTask returns when StopContainer fails.
AfterStopReturningOnError(err) == IF err THEN "done" ELSE "inspect"

\* The driver delivers KillTask once LaunchTask has returned; the callback
\* calls StopContainer and only logs its error.
AfterStop(err) == "inspect"

KillStop ==
    /\ Running /\ ~driverStopped
    /\ pc["launch"] = "done" /\ pc["kill"] = "idle"
    /\ \E err \in BOOLEAN :
         /\ stopErr' = err
         /\ Goto("kill", AfterStop(err))
    /\ UNCHANGED <<refused, proc, stoppedBy, sent, slept, dockerVars, watchVars, inspect, killStatus, relayVars>>

InspectResults ==
    {[err |-> TRUE, exitCode |-> -1, called |-> TRUE]} \cup
    {[err |-> FALSE, exitCode |-> c, called |-> TRUE] : c \in 0..MaxExitCode}

\* Mutant: the inspected exit code is not looked at.
KillStatusIgnoringExitCode(r) == TaskKilled

\* var status int64 = TaskKilled; if err == nil { if ExitCode == 0 { status = TaskFinished } }
KillStatusOf(r) == IF ~r.err /\ r.exitCode = 0 THEN TaskFinished ELSE TaskKilled

KillInspect ==
    /\ Running
    /\ pc["kill"] = "inspect"
    /\ \E r \in InspectResults :
         /\ inspect' = r
         /\ killStatus' = KillStatusOf(r)
    /\ Goto("kill", "send")
    /\ UNCHANGED <<refused, proc, stoppedBy, sent, slept, dockerVars, watchVars, stopErr, relayVars>>

KillSend ==
    /\ Running
    /\ pc["kill"] = "send"
    /\ \E ok \in BOOLEAN : sendStatus(killStatus, "kill", ok, "endSleep")
    /\ UNCHANGED <<stoppedBy, slept, dockerVars, watchVars, killVars, relayVars>>

\* Mutant: KillTask stops the driver without the grace sleep.
KillWithoutSleep ==
    /\ Running
    /\ pc["kill"] = "endSleep"
    /\ Goto("kill", "endStop")
    /\ UNCHANGED <<refused, proc, stoppedBy, sent, slept, dockerVars, watchVars, killVars, relayVars>>

\* time.Sleep(1 * time.Second)
KillSleep ==
    /\ Running
    /\ pc["kill"] = "endSleep"
    /\ slept' = slept \cup {"kill"}
    /\ Goto("kill", "endStop")
    /\ UNCHANGED <<refused, proc, stoppedBy, sent, dockerVars, watchVars, killVars, relayVars>>

KillStopDriver ==
    /\ Running
    /\ pc["kill"] = "endStop"
    /\ stoppedBy' = stoppedBy \cup {"kill"}
    /\ Goto("kill", "done")
    /\ UNCHANGED <<refused, proc, sent, slept, dockerVars, watchVars, killVars, relayVars>>

\* -------------------------------------------------------------------- main

\* driver.Join() returns once the driver is stopped and main returns: the
\* process ends and every goroutine still running is abandoned.
ProcessExit ==
    /\ Running
    /\ driverStopped
    /\ proc' = "exited"
    /\ UNCHANGED <<refused, stoppedBy, sent, slept, pc, dockerVars, watchVars, killVars, relayVars>>

Next ==
    \/ LaunchSendRunning
    \/ LaunchPull
    \/ LaunchCreate
    \/ LaunchStart
    \/ LaunchSpawn
    \/ \E p \in EndCallers : EndTaskSend(p)
    \/ \E p \in EndCallers : EndTaskSleep(p)
    \/ \E p \in EndCallers : EndTaskStop(p)
    \/ WatchBackoff
    \/ WatchList
    \/ WatchFetch
    \/ WatchEval
    \/ WatchTick
    \/ MonitorWait
    \/ KillStop
    \/ KillInspect
    \/ KillSend
    \/ KillSleep
    \/ KillStopDriver
    \/ ProcessExit

Spec == Init /\ [][Next]_vars

\* Goroutines and callbacks that have started keep being scheduled, and main
\* returns once the driver is stopped. Whether and when the driver delivers
\* KillTask is the orchestrator's choice: no fairness is assumed for it.
Fairness ==
    /\ WF_vars(LaunchSendRunning)
    /\ WF_vars(LaunchPull)
    /\ WF_vars(LaunchCreate)
    /\ WF_vars(LaunchStart)
    /\ WF_vars(LaunchSpawn)
    /\ \A p \in EndCallers :
         WF_vars(EndTaskSend(p)) /\ WF_vars(EndTaskSleep(p)) /\ WF_vars(EndTaskStop(p))
    /\ WF_vars(WatchBackoff)
    /\ WF_vars(WatchList)
    /\ WF_vars(WatchFetch)
    /\ WF_vars(WatchEval)
    /\ WF_vars(WatchTick)
    /\ WF_vars(MonitorWait)
    /\ WF_vars(KillInspect)
    /\ WF_vars(KillSend)
    /\ WF_vars(KillSleep)
    /\ WF_vars(KillStopDriver)
    /\ WF_vars(ProcessExit)

FairSpec == Spec /\ Fairness

\* ---------------------------------------------------------------- log relay

\* relayLogs(quitChan, containerId, output) has been called.
RelayCalled ==
    /\ rpc = "configure"
    /\ quit = FALSE
    /\ pump = [p \in Pumps |-> "idle"]
    /\ name = [p \in Pumps |-> "none"]
    /\ ended = [p \in Pumps |-> "none"]
    /\ lines = [p \in Pumps |-> 0]
    /\ sink = <<>>

\* handleOneStream(quitChan, name, logger, in) has been called twice on one
\* quitChan, with any stream names.
PumpsCalled ==
    /\ rpc = "idle"
    /\ quit = FALSE
    /\ pump = [p \in Pumps |-> "scan"]
    /\ name \in [Pumps -> Tags]
    /\ ended = [p \in Pumps |-> "none"]
    /\ lines = [p \in Pumps |-> 0]
    /\ sink = <<>>

RelayInit == MainInit /\ (RelayCalled \/ PumpsCalled)

\* configureLogRelay: a syslog hook that cannot be made ends the process
\* (log.Fatalf).
RelayConfigure ==
    /\ Running
    /\ rpc = "configure"
    /\ \E hookOk \in BOOLEAN :
         IF hookOk
         THEN rpc' = "spawn" /\ proc' = proc
         ELSE rpc' = rpc /\ proc' = "fatalHook"
    /\ UNCHANGED <<stoppedBy, sent, slept, refused, pc, dockerVars, watchVars, killVars>>
    /\ UNCHANGED <<quit, pump, name, ended, lines, sink>>

\* The pipes, FollowLogs, and one goroutine per stream.
RelaySpawn ==
    /\ Running
    /\ rpc = "spawn"
    /\ pump' = [p \in Pumps |-> "scan"]
    /\ name' = [p \in Pumps |-> IF p = 1 THEN "stdout" ELSE "stderr"]
    /\ rpc' = "wait"
    /\ UNCHANGED <<mainVars, quit, ended, lines, sink>>

\* <-quitChan
RelayWait ==
    /\ Running
    /\ rpc = "wait"
    /\ quit
    /\ rpc' = "done"
    /\ UNCHANGED <<mainVars, quit, pump, name, ended, lines, sink>>

\* The owner of quitChan closes it.
QuitSignal ==
    /\ Running
    /\ ~quit
    /\ quit' = TRUE
    /\ UNCHANGED <<mainVars, rpc, pump, name, ended, lines, sink>>

\* What scanner.Scan() can come back with.
ScanOutcomes == {"line", "eof", "readErr"}

\* Mutant: a read error on one stream ends both goroutines.
PumpScanErrorEndsBoth(p) ==
    /\ Running
    /\ pump[p] = "scan"
    /\ \E outcome \in ScanOutcomes :
         IF outcome = "line"
         THEN /\ lines[p] < MaxLines
              /\ lines' = [lines EXCEPT ![p] = @ + 1]
              /\ pump' = [pump EXCEPT ![p] = "forward"]
              /\ ended' = ended
         ELSE /\ lines' = lines
              /\ pump' = IF outcome = "readErr" THEN [q \in Pumps |-> "done"]
                         ELSE [pump EXCEPT ![p] = "done"]
              /\ ended' = IF outcome = "readErr"
                          THEN [q \in Pumps |-> IF ended[q] = "none" THEN outcome ELSE ended[q]]
                          ELSE [ended EXCEPT ![p] = outcome]
    /\ UNCHANGED <<mainVars, rpc, quit, name, sink>>

\* for scanner.Scan() { text := scanner.Text() ... }; a false Scan() leaves
\* the loop, with scanner.Err() logged when it is not nil.
PumpScan(p) ==
    /\ Running
    /\ pump[p] = "scan"
    /\ \E outcome \in ScanOutcomes :
         IF outcome = "line"
         THEN /\ lines[p] < MaxLines
              /\ lines' = [lines EXCEPT ![p] = @ + 1]
              /\ pump' = [pump EXCEPT ![p] = "forward"]
              /\ ended' = ended
         ELSE /\ lines' = lines
              /\ pump' = [pump EXCEPT ![p] = "done"]
              /\ ended' = [ended EXCEPT ![p] = outcome]
    /\ UNCHANGED <<mainVars, rpc, quit, name, sink>>

\* Mutant: a line of any stream name is sent to syslog.
ForwardsAnyTag(n) == TRUE

\* switch name { case "stdout": ... case "stderr": ... default: return }
Forwards(n) == n \in {"stdout", "stderr"}

\* logger.Info for stdout, logger.Error for stderr
Level(n) == IF n = "stderr" THEN "error" ELSE "info"

PumpForward(p) ==
    /\ Running
    /\ pump[p] = "forward"
    /\ IF Forwards(name[p])
       THEN /\ sink' = Append(sink, [by |-> p, tag |-> name[p], level |-> Level(name[p]),
                                     afterQuit |-> quit, sibling |-> ended[Sibling(p)]])
            /\ pump' = [pump EXCEPT ![p] = "check"]
            /\ ended' = ended
       ELSE /\ sink' = sink
            /\ pump' = [pump EXCEPT ![p] = "done"]
            /\ ended' = [ended EXCEPT ![p] = "unknownTag"]
    /\ UNCHANGED <<mainVars, rpc, quit, name, lines>>

\* Mutant: the goroutine never looks at quitChan.
QuitNeverObserved(closed) == FALSE

\* select { case <-quitChan: return; default: }: the receive is ready
\* exactly when the channel is closed.
QuitObserved(closed) == closed

PumpCheckQuit(p) ==
    /\ Running
    /\ pump[p] = "check"
    /\ IF QuitObserved(quit)
       THEN /\ pump' = [pump EXCEPT ![p] = "done"]
            /\ ended' = [ended EXCEPT ![p] = "quit"]
       ELSE /\ pump' = [pump EXCEPT ![p] = "scan"]
            /\ ended' = ended
    /\ UNCHANGED <<mainVars, rpc, quit, name, lines, sink>>

RelayNext ==
    \/ RelayConfigure
    \/ RelaySpawn
    \/ RelayWait
    \/ QuitSignal
    \/ \E p \in Pumps : PumpScan(p)
    \/ \E p \in Pumps : PumpForward(p)
    \/ \E p \in Pumps : PumpCheckQuit(p)

RelaySpec == RelayInit /\ [][RelayNext]_vars

\* Started goroutines keep being scheduled. scanner.Scan() blocks until the
\* container writes or closes the stream, and when quitChan is closed is its
\* owner's choice: no fairness is assumed for either.
RelayFairness ==
    /\ WF_vars(RelayConfigure)
    /\ WF_vars(RelaySpawn)
    /\ WF_vars(RelayWait)
    /\ \A p \in Pumps : WF_vars(PumpForward(p)) /\ WF_vars(PumpCheckQuit(p))

FairRelaySpec == RelaySpec /\ RelayFairness

\* =================================================================== claims

StatusesSent == {sent[i].status : i \in 1..Len(sent)}
SentBy(p) == {sent[i].status : i \in {j \in 1..Len(sent) : sent[j].by = p}}
CallsOf(op) == {i \in 1..Len(calls) : calls[i].op = op}
Called(op, ok) == \E i \in CallsOf(op) : calls[i].ok = ok

\* C1: in every task lifecycle at most one terminal status (Finished, Failed
\* or Killed) is sent and it is the last status sent: every update before the
\* last one is non-terminal.
C1_OneTerminalStatusLast ==
    \A i \in 1..Len(sent) : sent[i].status \in Terminal => i = Len(sent)

\* C2: CreateContainer is only ever called after TaskRunning was sent: in
\* every state in which a create call has been made, the first status
\* update sent is TaskRunning.
C2_RunningBeforeCreate ==
    CallsOf("CreateContainer") # {} => Len(sent) >= 1 /\ sent[1].status = TaskRunning

C2_Witness ==
    /\ Called("CreateContainer", TRUE)
    /\ sent = <<[status |-> TaskRunning, by |-> "launch"]>>

\* C3 (as claimed): a poll whose fetch attempts all fail neither aborts the
\* process nor fails the task: after SidecarRetryCount failed attempts
\* sidecarStatus has returned nil, the looper goes on (it waits for its next
\* tick or has started the next iteration) and the monitoring goroutine has
\* sent no TaskFailed.
C3_AllFetchesFailedStaysHealthy ==
    ~anyOk =>
        /\ proc # "panicFetch"
        /\ (attempt = SidecarRetryCount /\ pc["watch"] # "fetch") =>
              /\ loopErr = "nil"
              /\ pc["watch"] \in {"tick", "list"}
              /\ TaskFailed \notin SentBy("monitor")

\* The snapshot d holds, for TASK_HOST and the container's 12-character id
\* prefix, a status of unhealthy or tombstone.
UnhealthyHere(d) ==
    /\ d.json
    /\ TaskHost \in DOMAIN d.servers
    /\ ShortID(ContainerID) \in DOMAIN d.servers[TaskHost]
    /\ d.servers[TaskHost][ShortID(ContainerID)] \in {UNHEALTHY, TOMBSTONE}

\* The retry loop of the current iteration is over and sidecarStatus is
\* about to evaluate a fetched snapshot that is unhealthy for this container.
UnhealthyPoll ==
    /\ Running
    /\ pc["watch"] = "fetch" /\ attempt = SidecarRetryCount
    /\ ~fetchErr /\ UnhealthyHere(data)

\* The iteration that evaluates such a snapshot returns the error, the loop
\* stops on it, and a stopped loop runs no further iteration.
C4_Step ==
    [][/\ (UnhealthyPoll /\ pc'["watch"] # "fetch") =>
             (loopErr' = "unhealthy" /\ pc'["watch"] = "done")
       /\ pc["watch"] \in {"done", "exited"} =>
             (pc'["watch"] \in {"done", "exited"} /\ loopErr' = loopErr)]_vars

\* failTask's send of TaskFailed was made by the monitoring goroutine: the
\* update was accepted, or it was refused and the refusal aborted the process.
FailedReported == TaskFailed \in SentBy("monitor") \/ proc = "panicSend"

\* C4 (as claimed): an iteration whose snapshot is unhealthy or tombstone for
\* this host and container returns an error, the loop stops on it, and the
\* task is then reported Failed (a refused update counted as the report).
C4_UnhealthyLeadsToFailed ==
    /\ C4_Step
    /\ UnhealthyPoll ~> FailedReported

\* C4 (amended): as above, and the task is then reported Failed unless the
\* process ends first (a refused status update aborts it, or it exits after
\* a concurrent KillTask stopped the driver).
C4_UnhealthyLeadsToFailedOrEnd ==
    /\ C4_Step
    /\ UnhealthyPoll ~> (TaskFailed \in SentBy("monitor") \/ ~Running)

C4_Witness ==
    /\ pc["watch"] = "exited" /\ loopErr = "unhealthy"
    /\ data.json /\ data.servers[TaskHost][ShortID(ContainerID)] = TOMBSTONE
    /\ TaskFailed \in SentBy("monitor")

\* C5: once the registry was polled in an iteration, the loop function has
\* returned an error exactly when the parsed snapshot holds an unhealthy or
\* tombstone entry for this host and container; in every other case
\* (unparsable body, host absent, container absent, other status) it returned
\* nil, the looper waits for its next tick and nothing fails the task.
C5_ErrorOnlyWhenUnhealthyHere ==
    (pc["watch"] \in {"tick", "done", "exited"} /\ ListingError(listing) = "nil") =>
        /\ loopErr = "unhealthy" <=> (~fetchErr /\ UnhealthyHere(data))
        /\ loopErr # "unhealthy" =>
              /\ loopErr = "nil"
              /\ pc["watch"] = "tick"
              /\ pc["monitor"] = "wait"

C5_Witness ==
    /\ pc["watch"] = "tick" /\ loopErr = "nil"
    /\ data.json
    /\ TaskHost \notin DOMAIN data.servers
    /\ OtherHost \in DOMAIN data.servers
    /\ data.servers[OtherHost][ShortID(ContainerID)] = UNHEALTHY

\* C6: a status sent by a KillTask whose InspectContainer succeeded is
\* TaskFinished exactly when the inspected exit code is 0, and TaskKilled
\* for every other exit code.
C6_KillStatusFollowsExitCode ==
    (inspect.called /\ ~inspect.err) =>
        \A st \in SentBy("kill") :
            /\ st = TaskFinished <=> inspect.exitCode = 0
            /\ inspect.exitCode # 0 => st = TaskKilled

C6_Witness ==
    /\ inspect.called /\ ~inspect.err /\ inspect.exitCode = 0
    /\ SentBy("kill") = {TaskFinished}

KillReports == {i \in 1..Len(sent) : sent[i].by = "kill"}

\* C7: whatever StopContainer and InspectContainer returned, KillTask goes on
\* to its one status report, then sleeps, then stops the driver: a KillTask
\* past its send has sent exactly one update, it sleeps only after the send
\* and stops the driver only after the sleep, a KillTask that returned has
\* done all three, and after a failed inspect the update is TaskKilled.
C7_KillAlwaysReportsSleepsStops ==
    /\ pc["kill"] \in {"idle", "inspect", "send"} =>
          (KillReports = {} /\ "kill" \notin slept /\ "kill" \notin stoppedBy)
    /\ pc["kill"] = "endSleep" =>
          (Cardinality(KillReports) = 1 /\ "kill" \notin slept /\ "kill" \notin stoppedBy)
    /\ pc["kill"] = "endStop" =>
          (Cardinality(KillReports) = 1 /\ "kill" \in slept /\ "kill" \notin stoppedBy)
    /\ pc["kill"] = "done" =>
          (Cardinality(KillReports) = 1 /\ "kill" \in slept /\ "kill" \in stoppedBy)
    /\ (inspect.called /\ inspect.err) => SentBy("kill") \subseteq {TaskKilled}

C7_Witness ==
    /\ pc["kill"] = "done"
    /\ stopErr /\ inspect.err
    /\ SentBy("kill") = {TaskKilled}
    /\ "kill" \in slept /\ "kill" \in stoppedBy

\* ListContainers of the current iteration succeeded without the task's
\* container id in it.
NotListed(l) == ~l.err /\ ContainerID \notin l.ids

\* The iteration that finds the container missing returns "not running"
\* without a registry fetch and the loop stops on it.
C8_Step ==
    /\ [][(pc["watch"] = "list" /\ pc'["watch"] # "list" /\ NotListed(listing')) =>
            (loopErr' = "notRunning" /\ pc'["watch"] = "done" /\ attempt' = 0)]_vars
    /\ [](loopErr = "notRunning" =>
            (attempt = 0 /\ ~anyOk /\ pc["watch"] \in {"done", "exited"}))

\* C8 (as claimed): a listing without the task's container makes the
\* iteration return "not running" without polling the registry, the loop
\* stops, and the task is eventually reported Failed (a refused update
\* counted as the report).
C8_NotListedLeadsToFailed ==
    /\ C8_Step
    /\ (Running /\ loopErr = "notRunning") ~> FailedReported

\* C8 (amended): as above, and the task is eventually reported Failed unless
\* the process ends first (a refused status update aborts it, or it exits
\* after a concurrent KillTask stopped the driver).
C8_NotListedLeadsToFailedOrEnd ==
    /\ C8_Step
    /\ (Running /\ loopErr = "notRunning") ~> (TaskFailed \in SentBy("monitor") \/ ~Running)

C8_Witness ==
    /\ pc["watch"] = "exited" /\ loopErr = "notRunning"
    /\ NotListed(listing) /\ attempt = 0
    /\ TaskFailed \in SentBy("monitor")

\* C9: the driver is stopped only by a caller that has sent a terminal
\* status and then slept the grace delay: whoever is about to call or has
\* called driver.Stop() has done both, nobody sleeps before its terminal
\* send, and a stopped driver implies a terminal status was sent.
C9_StopAfterTerminalAndGrace ==
    /\ \A p \in Procs :
          (pc[p] = "endStop" \/ p \in stoppedBy) =>
              (p \in slept /\ SentBy(p) \cap Terminal # {})
    /\ \A p \in slept : SentBy(p) \cap Terminal # {}
    /\ driverStopped => StatusesSent \cap Terminal # {}

C9_Witness ==
    /\ "kill" \in stoppedBy /\ "kill" \in slept
    /\ SentBy("kill") = {TaskKilled}

LaunchFailed == Called("CreateContainer", FALSE) \/ Called("StartContainer", FALSE)

\* C10: when CreateContainer or StartContainer fails, LaunchTask goes to
\* failTask: it makes no further create or start call (StartContainer is
\* never called after a failed create), starts neither the watcher nor the
\* monitoring goroutine, and what it has sent once failTask's send is done is
\* TaskRunning followed by TaskFailed.
C10_LaunchFailureFailsTask ==
    /\ Cardinality(CallsOf("CreateContainer")) <= 1
    /\ Cardinality(CallsOf("StartContainer")) <= 1
    /\ Called("CreateContainer", FALSE) => CallsOf("StartContainer") = {}
    /\ LaunchFailed =>
          /\ pc["watch"] = "idle" /\ pc["monitor"] = "idle" /\ pc["kill"] = "idle"
          /\ pc["launch"] \in {"failSend", "endSleep", "endStop", "done"}
          /\ pc["launch"] # "failSend" =>
                sent = <<[status |-> TaskRunning, by |-> "launch"],
                         [status |-> TaskFailed, by |-> "launch"]>>

C10_Witness ==
    /\ Called("CreateContainer", TRUE) /\ Called("StartContainer", FALSE)
    /\ pc["launch"] = "done"
    /\ SentBy("launch") = {TaskRunning, TaskFailed}

\* Where a caller stands when sendStatus has not returned to it.
SendLabels(p) ==
    IF p = "launch" THEN {"idle", "failSend"}
    ELSE IF p = "kill" THEN {"send"}
    ELSE {"failSend", "finishSend"}

\* C13: a status update the driver refuses aborts the flow: the process
\* panics inside sendStatus, the caller never gets past the send (no grace
\* delay, no driver stop by it), and nothing at all happens afterwards: no
\* further update, sleep or stop by anyone.
C13_RefusedSendAborts ==
    /\ [](refused # {} =>
            /\ proc = "panicSend"
            /\ Cardinality(refused) = 1
            /\ \A p \in refused :
                 pc[p] \in SendLabels(p) /\ p \notin slept /\ p \notin stoppedBy)
    /\ [][refused # {} => FALSE]_vars

C13_Witness ==
    /\ refused = {"monitor"} /\ proc = "panicSend"
    /\ pc["monitor"] = "failSend"
    /\ "monitor" \notin slept /\ ~driverStopped

\* C14: one registry poll makes at most SidecarRetryCount attempts, a
\* further attempt is made only after a failed one (the poll stops at its
\* first success), and the result evaluated is a successful attempt's
\* whenever one succeeded.
C14_RetryStopsAtFirstSuccess ==
    /\ [](attempt <= SidecarRetryCount)
    /\ [][(attempt' = attempt + 1 /\ attempt >= 1) => fetchErr]_vars
    /\ [][(pc["watch"] = "fetch" /\ pc'["watch"] # "fetch" /\ anyOk) => ~fetchErr]_vars

\* C15: between two consecutive attempts of one poll the watcher sleeps the
\* retry delay.
C15_DelayBetweenAttempts ==
    [][(attempt' = attempt + 1 /\ attempt >= 1) => wslept = "retry"]_vars

\* C16: the watcher lists containers only after a finished sleep, the
\* initial backoff before the first check and the looper's period before
\* every later one; until the backoff is over there is no listing, no fetch
\* and no watcher result; a further check follows only a check without error,
\* and the loop is over exactly on an error.
C16_ChecksAfterBackoffThenPeriodic ==
    /\ [](pc["watch"] = "backoff" =>
            /\ listing = [err |-> FALSE, ids |-> {}]
            /\ attempt = 0 /\ loopErr = "nil" /\ wslept = "none"
            /\ pc["monitor"] = "wait"
            /\ TaskFailed \notin SentBy("monitor"))
    /\ [][(pc["watch"] = "list" /\ pc'["watch"] # "list") =>
            /\ wslept \in {"backoff", "tick"}
            /\ wslept = "backoff" <=> listing = [err |-> FALSE, ids |-> {}] /\ attempt = 0 /\ ~anyOk]_vars
    /\ [][pc'["watch"] = "tick" => loopErr' = "nil"]_vars
    /\ [](pc["watch"] \in {"done", "exited"} <=> loopErr # "nil")

C16_Witness ==
    /\ pc["watch"] = "list" /\ wslept = "tick"
    /\ attempt = SidecarRetryCount /\ loopErr = "nil"

\* The iteration whose ListContainers failed returns that error without a
\* registry fetch and the loop stops on it, as it does for a missing
\* container.
C19_Step ==
    /\ [][(pc["watch"] = "list" /\ pc'["watch"] # "list" /\ listing'.err) =>
            (loopErr' = "listErr" /\ pc'["watch"] = "done" /\ attempt' = 0)]_vars
    /\ [](loopErr = "listErr" =>
            (attempt = 0 /\ ~anyOk /\ pc["watch"] \in {"done", "exited"}))
    /\ [][(pc["monitor"] = "wait" /\ pc'["monitor"] # "wait" /\ loopErr \in {"listErr", "notRunning"}) =>
            pc'["monitor"] = "failSend"]_vars

\* C19 (as claimed): a failed ListContainers is not retried or passed over:
\* the iteration returns the error without polling the registry, the loop
\* stops, and the task is eventually reported Failed (a refused update
\* counted as the report).
C19_ListErrorLeadsToFailed ==
    /\ C19_Step
    /\ (Running /\ loopErr = "listErr") ~> FailedReported

\* C19 (amended): as above, and the task is eventually reported Failed
\* unless the process ends first (a refused status update aborts it, or it
\* exits after a concurrent KillTask stopped the driver).
C19_ListErrorLeadsToFailedOrEnd ==
    /\ C19_Step
    /\ (Running /\ loopErr = "listErr") ~> (TaskFailed \in SentBy("monitor") \/ ~Running)

C19_Witness ==
    /\ pc["watch"] = "exited" /\ loopErr = "listErr"
    /\ listing.err /\ attempt = 0
    /\ TaskFailed \in SentBy("monitor")

\* C11: once LaunchTask has created and started the container and returned,
\* the health watcher and the log relay with its two goroutines have been
\* started.
C11_LaunchStartsWatcherAndRelay ==
    (pc["launch"] = "done" /\ Called("CreateContainer", TRUE) /\ Called("StartContainer", TRUE)) =>
        /\ pc["watch"] # "idle"
        /\ rpc # "idle"

\* The records goroutine p handed to the syslog logger.
EntriesBy(p) == {i \in 1..Len(sink) : sink[i].by = p}

\* A step in which goroutine p returns for the given reason.
EndsBy(p, why) == ended[p] = "none" /\ ended'[p] = why

\* The step leaves everything of p's sibling, the signal and relayLogs alone.
SiblingUntouched(p) ==
    /\ pump'[Sibling(p)] = pump[Sibling(p)]
    /\ ended'[Sibling(p)] = ended[Sibling(p)]
    /\ lines'[Sibling(p)] = lines[Sibling(p)]
    /\ quit' = quit /\ rpc' = rpc

\* C12: a handleOneStream given a name other than stdout and stderr hands no
\* line to the syslog logger, returns on the first line it reads without
\* reaching the quitChan check, and its return leaves the sibling goroutine
\* as it was.
C12_UnknownTagNeverForwards ==
    /\ [](\A p \in Pumps :
            (pump[p] # "idle" /\ name[p] \notin {"stdout", "stderr"}) =>
                /\ EntriesBy(p) = {}
                /\ pump[p] # "check"
                /\ lines[p] <= 1
                /\ (lines[p] = 1 /\ pump[p] = "done") => ended[p] = "unknownTag")
    /\ [][\A p \in Pumps : EndsBy(p, "unknownTag") =>
            (SiblingUntouched(p) /\ sink' = sink)]_vars

C12_Witness ==
    /\ name[1] = "other" /\ ended[1] = "unknownTag" /\ EntriesBy(1) = {}
    /\ \E i \in EntriesBy(2) : sink[i].sibling = "unknownTag"

\* C17: a read error on one stream ends the goroutine of that stream and
\* nothing else: the step leaves the sibling goroutine, the signal, the
\* syslog records and the task's status updates as they were, and the
\* goroutine that met the error has returned.
C17_ReadErrorEndsOnlyThatPump ==
    /\ [][\A p \in Pumps : EndsBy(p, "readErr") =>
            /\ SiblingUntouched(p)
            /\ sink' = sink
            /\ UNCHANGED <<sent, refused, proc, stoppedBy, pc>>]_vars
    /\ [](\A p \in Pumps : ended[p] = "readErr" => pump[p] = "done")

C17_Witness ==
    /\ ended[1] = "readErr"
    /\ \E i \in EntriesBy(2) : sink[i].sibling = "readErr"
    /\ pump[2] = "scan"
    /\ sent = <<>>

\* Closing quitChan is seen by every receiver: a receive never reopens it.
C18_Broadcast == [][quit => quit']_vars

\* C18: once quitChan is closed, relayLogs and both of its goroutines
\* eventually return, whatever their streams do, and the signal stays visible
\* to all.
C18_QuitEndsRelayAndPumps ==
    /\ C18_Broadcast
    /\ (Running /\ quit /\ rpc = "wait") ~>
           (rpc = "done" /\ \A p \in Pumps : pump[p] = "done")

\* C20: a goroutine looks at quitChan only right after handing a line to the
\* syslog logger, so of the records of one goroutine at most one was handed
\* over with quitChan already closed, and a goroutine that saw the signal
\* has returned and hands over nothing more.
C20_AtMostOneLineAfterQuit ==
    /\ [](\A p \in Pumps :
            /\ Cardinality({i \in EntriesBy(p) : sink[i].afterQuit}) <= 1
            /\ pump[p] = "check" => (EntriesBy(p) # {} /\ Cardinality(EntriesBy(p)) = lines[p])
            /\ ended[p] = "quit" => pump[p] = "done")
    /\ [][\A p \in Pumps :
            /\ EndsBy(p, "quit") => (pump[p] = "check" /\ quit)
            /\ ended[p] = "quit" => Cardinality(EntriesBy(p))' = Cardinality(EntriesBy(p))]_vars

C20_Witness ==
    \E p \in Pumps :
        /\ ended[p] = "quit"
        /\ Cardinality({i \in EntriesBy(p) : sink[i].afterQuit}) = 1
        /\ Cardinality(EntriesBy(p)) = MaxLines

====
